---- MODULE Spec2Model ----
(***************************************************************************)
(* Model of the AdMagic campaign pipeline.                                 *)
(*                                                                         *)
(*   services/geminiService.ts : dataUrlToPart, processGeminiResponse,     *)
(*       parsePromptsFromText, generateSingleAd, researchAndGenerateAds    *)
(*   App.tsx                   : App.handleGenerate, onProgressUpdate,     *)
(*       App.handleStartOver                                               *)
(*                                                                         *)
(* JavaScript strings are sequences of characters, a character being a    *)
(* one-character TLA+ string or, for a character that cannot be written    *)
(* in a module, its name "U+XXXX".  Fixed texts that no regular expression *)
(* or trim looks into (messages, instructions) are written as one element. *)
(* Template literals and concatenation are \o on those sequences.  An      *)
(* index of the program (0-based) is position index + 1 of the modelling   *)
(* sequence.                                                               *)
(* The form options (aspect ratio, colours, tagline ...) only flow into    *)
(* prompt text and are not modelled.                                       *)
(***************************************************************************)
EXTENDS Integers, Sequences, FiniteSets, TLC

\* ------------------------------------------------------------- bounds

\* Number of invocations of researchAndGenerateAds (clicks on Generate).
MaxCampaigns == 2

\* Generation calls completed in the specification over every input.
MaxCompletions == 2

\* Generation calls completed in the multi-campaign specification.
MaxAppCompletions == 2

\* Most markers in a constructed research reply.
MaxMarkers == 12

\* Most remote calls that settle in the same turn of the event loop in
\* the specification that runs one campaign to its end.
MaxPerTurn == 2

\* Items the image model may decline in the fair specification.
MaxDeclined == 3

\* ---------------------------------------------------- program constants

\* parsePromptsFromText: `prompts.length < 10` and `prompts.slice(0, 10)`.
RequiredPrompts == 10

\* App.handleGenerate: `Array(10).fill(...)`.
SlotCount == 10

\* ------------------------------------------------------------ helpers

Max(a, b) == IF a >= b THEN a ELSE b

Min(a, b) == IF a <= b THEN a ELSE b

\* ------------------------------------------------------- dataUrlToPart

\* null where a Part is expected.
Null == [null |-> TRUE]

\* null where a string is expected (no program string equals it).
NullString == <<"<null>">>

\* JavaScript truthiness of a string-or-null value.
Truthy(s) == s # NullString /\ s # <<>>

\* The characters matched by \w: letters, digits and the underscore.
WordChars ==
    {"a", "b", "c", "d", "e", "f", "g", "h", "i", "j", "k", "l", "m",
     "n", "o", "p", "q", "r", "s", "t", "u", "v", "w", "x", "y", "z",
     "A", "B", "C", "D", "E", "F", "G", "H", "I", "J", "K", "L", "M",
     "N", "O", "P", "Q", "R", "S", "T", "U", "V", "W", "X", "Y", "Z",
     "0", "1", "2", "3", "4", "5", "6", "7", "8", "9", "_"}

\* The line terminators, which `.` does not match (the regular expression
\* has no s flag): LF, CR, LINE SEPARATOR and PARAGRAPH SEPARATOR.
LineTerminators == {"\n", "\r", "U+2028", "U+2029"}

\* The literal pieces of /^data:(image\/\w+);base64,(.*)$/ .
DataImage == <<"d", "a", "t", "a", ":", "i", "m", "a", "g", "e", "/">>

Base64Mark == <<";", "b", "a", "s", "e", "6", "4", ",">>

\* s has the characters of `piece` from position `at` on.
HasAt(s, at, piece) ==
    /\ at + Len(piece) - 1 <= Len(s)
    /\ SubSeq(s, at, at + Len(piece) - 1) = piece

\* Length of the longest run of characters of `chars` in s from `at` on.
RECURSIVE RunLength(_, _, _)
RunLength(s, at, chars) ==
    IF at <= Len(s) /\ s[at] \in chars
    THEN 1 + RunLength(s, at + 1, chars) ELSE 0

\* /^data:(image\/\w+);base64,(.*)$/ : "data:image/", one or more word
\* characters (the longest run: the next character must be ';'),
\* ";base64,", then any characters but line terminators up to the end.
MatchesDataUrl(dataUrl) ==
    LET w == RunLength(dataUrl, Len(DataImage) + 1, WordChars) IN
    /\ HasAt(dataUrl, 1, DataImage)
    /\ w >= 1
    /\ HasAt(dataUrl, Len(DataImage) + w + 1, Base64Mark)
    /\ \A k \in (Len(DataImage) + w + Len(Base64Mark) + 1)..Len(dataUrl) :
          dataUrl[k] \notin LineTerminators

\* match[1] is "image/<subtype>", match[2] the payload.
dataUrlToPart(dataUrl) ==
    IF ~MatchesDataUrl(dataUrl) THEN Null
    ELSE LET w == RunLength(dataUrl, Len(DataImage) + 1, WordChars) IN
         [inlineData |->
            [mimeType |-> SubSeq(dataUrl, 6, Len(DataImage) + w),
             data |-> SubSeq(dataUrl, Len(DataImage) + w + Len(Base64Mark) + 1,
                             Len(dataUrl))]]

\* -------------------------------------------------- processGeminiResponse

\* A Part of the API: {text} or {inlineData: {mimeType, data}}.
TextPart(t) == [text |-> t]

HasInlineData(part) == "inlineData" \in DOMAIN part

\* Array.prototype.find: first element satisfying the test, or Null.
RECURSIVE FindInlinePart(_)
FindInlinePart(parts) ==
    IF parts = <<>> THEN Null
    ELSE IF HasInlineData(Head(parts)) THEN Head(parts)
         ELSE FindInlinePart(Tail(parts))

\* response.candidates?.[0]?.content?.parts?.find(part => part.inlineData)
FirstCandidateImagePart(response) ==
    IF Len(response.candidates) = 0 THEN Null
    ELSE FindInlinePart(response.candidates[1].parts)

NoImageMessage(textResponse) ==
    <<"The AI model responded with text instead of an image: \"">>
      \o (IF textResponse = <<>> THEN <<"No text response received.">>
          ELSE textResponse)
      \o <<"\"">>

\* Result of a call that may throw: [ok |-> TRUE, value] or
\* [ok |-> FALSE, message] (the message of the thrown Error).
Return(v) == [ok |-> TRUE, value |-> v]

Throw(m) == [ok |-> FALSE, message |-> m]

\* processGeminiResponse handing back the text when there is no image.
processGeminiResponseLenient(response) ==
    LET imagePartFromResponse == FirstCandidateImagePart(response) IN
    IF imagePartFromResponse # Null
    THEN Return(<<"d", "a", "t", "a", ":">>
                  \o imagePartFromResponse.inlineData.mimeType
                  \o Base64Mark \o imagePartFromResponse.inlineData.data)
    ELSE Return(response.text)

processGeminiResponse(response) ==
    LET imagePartFromResponse == FirstCandidateImagePart(response) IN
    IF imagePartFromResponse # Null
    THEN Return(<<"d", "a", "t", "a", ":">>
                  \o imagePartFromResponse.inlineData.mimeType
                  \o Base64Mark \o imagePartFromResponse.inlineData.data)
    ELSE Throw(NoImageMessage(response.text))

\* -------------------------------------------------- parsePromptsFromText

Digits == {"0", "1", "2", "3", "4", "5", "6", "7", "8", "9"}

\* The literal start of /PROMPT \d+:/ .
PromptWord == <<"P", "R", "O", "M", "P", "T", " ">>

\* Length of the match of /PROMPT \d+:/ at position `at` of text, 0 when
\* there is none: "PROMPT ", one or more digits (the longest run: the next
\* character must be ':'), ":".
MarkerLength(text, at) ==
    LET d == RunLength(text, at + Len(PromptWord), Digits) IN
    IF /\ HasAt(text, at, PromptWord)
       /\ d >= 1
       /\ HasAt(text, at + Len(PromptWord) + d, <<":">>)
    THEN Len(PromptWord) + d + 1
    ELSE 0

\* What String.prototype.trim removes: the WhiteSpace and LineTerminator
\* characters of ECMAScript (TAB, VT, FF, SP, NBSP, ZWNBSP, the Unicode
\* space separators, LF, CR, LS, PS).
Whitespace ==
    {"\t", "U+000B", "\f", " ", "U+00A0", "U+FEFF", "U+1680",
     "U+2000", "U+2001", "U+2002", "U+2003", "U+2004", "U+2005", "U+2006",
     "U+2007", "U+2008", "U+2009", "U+200A", "U+202F", "U+205F", "U+3000",
     "\n", "\r", "U+2028", "U+2029"}

\* String.prototype.split(/PROMPT \d+:/), the matches taken from left to
\* right: ahead[at] is the number of characters from position `at` to the
\* next match (to the end of the text when there is none), pieces[at, n]
\* the split of the text from `at` on, whose first piece is n characters
\* long; the scan resumes after the match that ends a piece. The piece
\* before the first match and the piece after the last one are included,
\* empty or not.
SplitOnMarker(text) ==
    LET ahead[at \in 1..(Len(text) + 1)] ==
          IF at > Len(text) \/ MarkerLength(text, at) > 0 THEN 0
          ELSE 1 + ahead[at + 1]
        pieces[at \in 1..(Len(text) + 1), n \in 0..Len(text)] ==
          IF at + n > Len(text) THEN <<SubSeq(text, at, Len(text))>>
          ELSE LET from == at + n + MarkerLength(text, at + n) IN
               <<SubSeq(text, at, at + n - 1)>> \o pieces[from, ahead[from]]
    IN pieces[1, ahead[1]]

RECURSIVE TrimStart(_)
TrimStart(s) ==
    IF s # <<>> /\ Head(s) \in Whitespace THEN TrimStart(Tail(s)) ELSE s

RECURSIVE TrimEnd(_)
TrimEnd(s) ==
    IF s # <<>> /\ s[Len(s)] \in Whitespace
    THEN TrimEnd(SubSeq(s, 1, Len(s) - 1)) ELSE s

Trim(s) == TrimEnd(TrimStart(s))

NonEmpty(p) == Len(p) > 0

\* The pieces filtered without the trim.
SegmentsUntrimmed(text) == SelectSeq(SplitOnMarker(text), NonEmpty)

\* text.split(...).map(p => p.trim()).filter(p => p.length > 0)
Segments(text) ==
    LET pieces == SplitOnMarker(text)
        trimmed == [k \in 1..Len(pieces) |-> Trim(pieces[k])]
    IN SelectSeq(trimmed, NonEmpty)

ConceptsMessage ==
    <<"The AI failed to generate enough creative concepts. Please try again.">>

\* parsePromptsFromText returning every segment it found.
parsePromptsFromTextNoSlice(text) ==
    LET prompts == Segments(text) IN
    IF Len(prompts) < RequiredPrompts THEN Throw(ConceptsMessage)
    ELSE Return(prompts)

parsePromptsFromText(text) ==
    LET prompts == Segments(text) IN
    IF Len(prompts) < RequiredPrompts THEN Throw(ConceptsMessage)
    ELSE Return(SubSeq(prompts, 1, Min(RequiredPrompts, Len(prompts))))

\* ------------------------------------------------------ generateSingleAd

LogoInstruction(logoImagePart) ==
    IF logoImagePart # Null
    THEN "Incorporate the company logo from the second image subtly and professionally."
    ELSE "No logo was provided, so do not add one."

\* The parts of the request generateSingleAd sends: the text prompt, the
\* product image and, when there is one, the logo.
RequestParts(productImagePart, logoImagePart, creativePrompt) ==
    LET textPrompt == <<"CONCEPT: ">> \o creativePrompt
                        \o <<LogoInstruction(logoImagePart)>>
        parts == <<TextPart(textPrompt), productImagePart>>
    IN IF logoImagePart # Null THEN Append(parts, logoImagePart) ELSE parts

\* generateSingleAd whose catch block returns instead of rethrowing.
generateSingleAdSwallows(api) ==
    LET r == IF api.ok THEN processGeminiResponse(api.value) ELSE api IN
    IF r.ok THEN r ELSE Return(r.message)

\* The try/catch around the call and processGeminiResponse: `api` is what
\* ai.models.generateContent did (returned a response or threw).
generateSingleAd(api) ==
    LET r == IF api.ok THEN processGeminiResponse(api.value) ELSE api IN
    IF r.ok THEN r ELSE Throw(<<"AI model failed: ">> \o r.message)

\* The task reporting under the 1-based number of its prompt.
TaskReportOneBased(index, outcome) ==
    IF outcome.ok
    THEN [index |-> index + 1,
          result |-> [status |-> "done", url |-> outcome.value]]
    ELSE [index |-> index + 1,
          result |-> [status |-> "error", error |-> outcome.message]]

\* The async callback of creativePrompts.map: the (index, result) it hands
\* to onProgressUpdate for the outcome of generateSingleAd.
TaskReport(index, outcome) ==
    IF outcome.ok
    THEN [index |-> index, result |-> [status |-> "done", url |-> outcome.value]]
    ELSE [index |-> index,
          result |-> [status |-> "error", error |-> outcome.message]]

\* How the async callback's own promise settles: the try/catch turns every
\* outcome of generateSingleAd into a normal return.
TaskSettles(outcome) == "fulfilled"

\* Every task generating from the first prompt instead of its own.
StartedRequestsFirstPrompt(productImagePart, logoImagePart, prompts) ==
    [k \in 1..Len(prompts) |->
        <<RequestParts(productImagePart, logoImagePart, prompts[1])>>]

\* The map started one task at a time, each task awaited before the next
\* one is started: only the first request is out.
StartedRequestsInTurn(productImagePart, logoImagePart, prompts) ==
    [k \in 1..Len(prompts) |->
        IF k = 1
        THEN <<RequestParts(productImagePart, logoImagePart, prompts[k])>>
        ELSE <<>>]

\* creativePrompts.map(async (prompt, index) => ...): map calls the async
\* callback for every prompt in turn, and each call runs synchronously up
\* to its first await, the generateContent call of generateSingleAd; when
\* map returns every task has its one request out.
StartedRequests(productImagePart, logoImagePart, prompts) ==
    [k \in 1..Len(prompts) |->
        <<RequestParts(productImagePart, logoImagePart, prompts[k])>>]

\* Promise.all over the tasks' promises.
PromiseAll(tasks) ==
    IF \E k \in DOMAIN tasks : tasks[k] = "rejected" THEN "rejected"
    ELSE IF \A k \in DOMAIN tasks : tasks[k] = "fulfilled" THEN "resolved"
    ELSE "pending"

ResearchMessage ==
    <<"The AI failed during the research phase. Please check your inputs and try again.">>

InvalidImageMessage == <<"Invalid product image data URL.">>

\* The research phase whose catch block logs and carries on with no prompts.
ResearchPhaseSwallows(api) ==
    LET r == IF api.ok THEN parsePromptsFromText(api.value) ELSE api IN
    IF r.ok THEN r ELSE Return(<<>>)

\* The research phase once the research call has returned or thrown:
\* parsePromptsFromText runs inside the same try block as the call.
ResearchPhase(api) ==
    LET r == IF api.ok THEN parsePromptsFromText(api.value) ELSE api IN
    IF r.ok THEN r ELSE Throw(ResearchMessage)

\* ----------------------------------------------------------------- App

Pending == [status |-> "pending"]

\* An array position never assigned (a hole of a sparse array).
Hole == [status |-> "empty"]

\* Array(10).fill(v)
Filled(v) == [k \in 1..SlotCount |-> v]

\* The updater assigning into its copy and returning the previous array.
onProgressUpdateStale(prevAds, index, result) == prevAds

\* The updater pushing the result instead of assigning it at its index.
onProgressUpdateAppend(prevAds, index, result) == Append(prevAds, result)

\* onProgressUpdate's updater: newAds = [...prevAds]; newAds[index] = result.
onProgressUpdate(prevAds, index, result) ==
    [k \in 1..Max(Len(prevAds), index + 1) |->
        IF k = index + 1 THEN result
        ELSE IF k <= Len(prevAds) THEN prevAds[k] ELSE Hole]

\* The .catch handler taking the rejection for something that is no Error.
OnCampaignFailureGeneric(message) ==
    Filled([status |-> "error",
            error |-> <<"An unknown error occurred during campaign generation.">>])

\* The .catch handler of handleGenerate.
OnCampaignFailure(message) ==
    Filled([status |-> "error", error |-> message])

\* --------------------------------------------------------- environment

\* Product and logo files as FileReader.readAsDataURL returns them.
PngProduct == DataImage \o <<"p", "n", "g">> \o Base64Mark \o <<"U", "F", "J", "E">>

SvgProduct ==
    DataImage \o <<"s", "v", "g", "+", "x", "m", "l">> \o Base64Mark
      \o <<"U", "F", "J", "E">>

PdfProduct ==
    <<"d", "a", "t", "a", ":", "a", "p", "p", "l", "i", "c", "a", "t", "i",
      "o", "n", "/", "p", "d", "f">> \o Base64Mark \o <<"U", "F", "J", "E">>

PngLogo == DataImage \o <<"p", "n", "g">> \o Base64Mark \o <<"T", "E", "9", "H">>

SvgLogo ==
    DataImage \o <<"s", "v", "g", "+", "x", "m", "l">> \o Base64Mark
      \o <<"T", "E", "9", "H">>

\* The decimal digits of a natural number.
RECURSIVE Decimal(_)
Decimal(n) ==
    LET last == <<<<"0", "1", "2", "3", "4", "5", "6", "7", "8", "9">>[(n % 10) + 1]>>
    IN IF n < 10 THEN last ELSE Decimal(n \div 10) \o last

\* "PROMPT <n>:"
Marker(n) == PromptWord \o Decimal(n) \o <<":">>

\* The text of concept n: "c<n>".
Concept(n) == <<"c">> \o Decimal(n)

\* A research reply of k marked concepts, numbered from `from`, in the
\* format the research prompt asks for.
RECURSIVE MarkedConcepts(_, _)
MarkedConcepts(from, k) ==
    IF k = 0 THEN <<>>
    ELSE Marker(from) \o <<" ">> \o Concept(from) \o <<"\n">>
           \o MarkedConcepts(from + 1, k - 1)

\* A greeting: "Hi!" and a line feed.
Preamble == <<"H", "i", "!", "\n">>

\* Replies of the research model: one concept too few, exactly enough.
CoreReplies == {MarkedConcepts(1, 9), MarkedConcepts(1, 10)}

\* ... and also: more than enough, nothing but a greeting, a greeting
\* followed by one concept too few, and a reply whose third concept is blank.
Replies ==
    CoreReplies \cup
      { MarkedConcepts(1, 12),
        Preamble,
        Preamble \o MarkedConcepts(1, 9),
        MarkedConcepts(1, 2) \o Marker(3) \o <<" ", "\n">> \o MarkedConcepts(4, 7) }

\* What a reply can open with before its first marker, with the segment
\* it leaves there: nothing, blank lines, a greeting.
Openings ==
    { [raw |-> <<>>, segment |-> <<>>],
      [raw |-> <<" ", "\r", "\n">>, segment |-> <<>>],
      [raw |-> Preamble, segment |-> <<"H", "i", "!">>] }

\* How the model lays out a concept after its marker.
Layouts == {"bare", "padded", "twoWords", "nearMarker"}

\* The text after the marker of concept j, as sent.
ConceptRaw(j, layout) ==
    IF layout = "bare" THEN Concept(j)
    ELSE IF layout = "padded"
         THEN <<" ", "\r", "\n">> \o Concept(j) \o <<"\t", "\r", "\n">>
    ELSE IF layout = "twoWords"
         THEN <<" ", "a", " ">> \o Concept(j) \o <<"\n">>
    ELSE <<"\n", "P", "R", "O", "M", "P", "T", ":", " ">> \o Concept(j)
           \o <<"\n">>

\* The concept itself: the same text without the surrounding whitespace.
ConceptBody(j, layout) ==
    IF layout \in {"bare", "padded"} THEN Concept(j)
    ELSE IF layout = "twoWords" THEN <<"a", " ">> \o Concept(j)
    ELSE <<"P", "R", "O", "M", "P", "T", ":", " ">> \o Concept(j)

\* A reply by construction: an opening, then markers 1..n, each followed
\* by its concept or, for the markers in `blank`, by whitespace only.
ReplyPlans ==
    [opening : Openings,
     n : (RequiredPrompts - 2)..MaxMarkers,
     blank : SUBSET {3, RequiredPrompts + 1},
     layout : Layouts]

RECURSIVE MarkedFrom(_, _)
MarkedFrom(plan, j) ==
    IF j > plan.n THEN <<>>
    ELSE Marker(j)
           \o (IF j \in plan.blank THEN <<" ", "\t", "\r", "\n">>
               ELSE ConceptRaw(j, plan.layout))
           \o MarkedFrom(plan, j + 1)

\* The text of the reply.
ReplyText(plan) == plan.opening.raw \o MarkedFrom(plan, 1)

ConstructedReplies == {Return(ReplyText(plan)) : plan \in ReplyPlans}

ServiceErrorMessage == <<"fetch failed">>

InternalErrorMessage == <<"{\"error\":{\"code\":500,\"status\":\"INTERNAL\"}}">>

PermissionErrorMessage == <<"{\"error\":{\"code\":403,\"status\":\"PERMISSION_DENIED\"}}">>

\* What the research call can do: throw, or return one of the replies.
ResearchApiResults == {Throw(ServiceErrorMessage)} \cup {Return(t) : t \in Replies}

CoreResearchApiResults ==
    {Throw(ServiceErrorMessage)} \cup {Return(t) : t \in CoreReplies}

\* The ways a generation call fails in one run of the remote service: the
\* model answers with text only, the service throws an internal error, or
\* it throws another error.
FailureKinds == {"noImage", "internal", "other"}

\* A response carrying the image generated for a request.
ImageResponse(request) ==
    [candidates |->
        <<[parts |-> <<TextPart(<<"Here is your ad.">>),
                       [inlineData |-> [mimeType |-> <<"i", "m", "a", "g", "e", "/", "p", "n", "g">>,
                                        data |-> <<"AD ">> \o request[1].text]]>>]>>,
     text |-> <<"Here is your ad.">>]

TextOnlyResponse ==
    [candidates |-> <<[parts |-> <<TextPart(<<"I cannot create that image.">>)>>]>>,
     text |-> <<"I cannot create that image.">>]

\* A response of two candidates, the image in the second one.
SecondCandidateResponse(request) ==
    [candidates |->
        <<[parts |-> <<TextPart(<<"Here is your ad.">>)>>],
          [parts |-> <<[inlineData |-> [mimeType |-> <<"i", "m", "a", "g", "e", "/", "p", "n", "g">>,
                                        data |-> <<"AD ">> \o request[1].text]]>>]>>,
     text |-> <<"Here is your ad.">>]

\* A response whose only candidate has no parts and whose text is empty.
EmptyTextResponse == [candidates |-> <<[parts |-> <<>>]>>, text |-> <<>>]

\* A response without candidates (a blocked prompt); its text is empty.
BlockedResponse == [candidates |-> <<>>, text |-> <<>>]

\* Further ways a generation call comes back without a usable image.
ExtractKinds == {"secondCandidate", "emptyText", "noCandidates"}

\* What ai.models.generateContent does for a generation request.
GenerationApi(request, succeed, failure) ==
    IF succeed THEN Return(ImageResponse(request))
    ELSE IF failure = "noImage" THEN Return(TextOnlyResponse)
    ELSE IF failure = "internal" THEN Throw(InternalErrorMessage)
    ELSE IF failure = "secondCandidate"
         THEN Return(SecondCandidateResponse(request))
    ELSE IF failure = "emptyText" THEN Return(EmptyTextResponse)
    ELSE IF failure = "noCandidates" THEN Return(BlockedResponse)
    ELSE Throw(PermissionErrorMessage)

\* ---------------------------------------------------------------- state

Campaigns == 1..MaxCampaigns

VARIABLES
    view,            \* App: 'form' | 'results'
    generatedAds,    \* App: the GeneratedImage array
    nCamp,           \* calls of researchAndGenerateAds made so far
    args,            \* per call: its arguments
    apiFailure,      \* per call: how the generation service fails, if it does
    phase,           \* per call: where the async function is
    rejection,       \* per call: message of the Error it rejected with
    researchResponse,\* per call: what the research call did
    researchCalls,   \* per call: research requests issued
    creativePrompts, \* per call: the parsed prompts
    sent,            \* per call, per task: generation requests issued
    task,            \* per call, per task: state of the task's promise
    apiResult,       \* per call, per task: what the generation call did
    progress,        \* per call: index -> results passed to onProgressUpdate
    completions,     \* generation calls that have completed, all calls
    queue,           \* the microtask queue: continuations ready to run
    draining         \* the event loop is running the microtasks of a turn

vars ==
    <<view, generatedAds, nCamp, args, apiFailure, phase, rejection,
      researchResponse, researchCalls, creativePrompts, sent, task, apiResult, progress,
      completions, queue, draining>>

NoArgs == [productImageDataUrl |-> NullString, logoImageDataUrl |-> NullString]

Init ==
    /\ view = "form"
    /\ generatedAds = <<>>
    /\ nCamp = 0
    /\ args = [c \in Campaigns |-> NoArgs]
    /\ apiFailure = [c \in Campaigns |-> "noImage"]
    /\ phase = [c \in Campaigns |-> "idle"]
    /\ rejection = [c \in Campaigns |-> <<>>]
    /\ researchResponse = [c \in Campaigns |-> Null]
    /\ researchCalls = [c \in Campaigns |-> 0]
    /\ creativePrompts = [c \in Campaigns |-> <<>>]
    /\ sent = [c \in Campaigns |-> <<>>]
    /\ task = [c \in Campaigns |-> <<>>]
    /\ apiResult = [c \in Campaigns |-> <<>>]
    /\ progress = [c \in Campaigns |-> <<>>]
    /\ completions = 0
    /\ queue = <<>>
    /\ draining = FALSE

\* ----------------------------------------------------------- event loop

\* A continuation in the microtask queue: the code after an await, or a
\* promise handler, of call c (and of its task k, 0 when it has none).
\*   "research" : researchAndGenerateAds after the await of the research call
\*   "generate" : generateSingleAd after the await of its generation call
\*   "task"     : the map callback after the await of generateSingleAd
\*   "all"      : researchAndGenerateAds after the await of Promise.all
\*   "catch"    : the .catch handler of handleGenerate
Job(kind, c, k) == [kind |-> kind, c |-> c, k |-> k]

\* A remote call settles (a task of the event loop that runs no program
\* code): the continuation awaiting it joins the queue.  Calls may settle
\* one after the other in the same turn, before any microtask runs.
Delivered(job) ==
    /\ ~draining
    /\ queue' = Append(queue, job)
    /\ UNCHANGED draining

\* `job` is the microtask to run now.
IsNext(job) == queue # <<>> /\ Head(queue) = job

\* The microtask at the head of the queue has run and queued `jobs`; the
\* turn ends when the queue is empty.
Dequeued(jobs) ==
    /\ queue' = Tail(queue) \o jobs
    /\ draining' = (Tail(queue) \o jobs # <<>>)

\* -------------------------------------------------------------- actions

\* The inputs of one click on Generate: the uploaded product image, the
\* logo (NullString when none was uploaded) and, for the remote service,
\* the way its generation calls fail when they do.
Input(product, logo, failure) ==
    [productImageDataUrl |-> product, logoImageDataUrl |-> logo,
     failure |-> failure]

\* Every combination of product, logo and failure kind.
Inputs ==
    {Input(p, l, f) : p \in {PngProduct, SvgProduct, PdfProduct},
                      l \in {NullString, PngLogo, SvgLogo},
                      f \in FailureKinds}

\* Inputs of the specification that runs one campaign to its end: a valid
\* and an invalid product, no logo, a service that answers without an image
\* or throws.
Scenarios ==
    {Input(p, NullString, f) : p \in {PngProduct, SvgProduct},
                               f \in {"noImage", "internal"}}

\* Inputs of the specification of the response extraction: a valid product,
\* with and without a logo, and every kind of response.
ExtractScenarios ==
    {Input(PngProduct, l, f) : l \in {NullString, PngLogo},
                               f \in FailureKinds \cup ExtractKinds}

\* Inputs of the multi-campaign specification.
AppScenarios ==
    {Input(p, NullString, "noImage") : p \in {PngProduct, SvgProduct}}

\* FormView.handleGenerateClick and App.handleGenerate, up to the await of
\* the research call inside researchAndGenerateAds: a click, which the
\* event loop handles when no microtask is left.
HandleGenerate(c, in) ==
    /\ queue = <<>>
    /\ view = "form"
    /\ nCamp = c - 1
    /\ Truthy(in.productImageDataUrl)
    /\ generatedAds' = Filled(Pending)
    /\ view' = "results"
    /\ nCamp' = c
    /\ args' = [args EXCEPT ![c] =
                  [productImageDataUrl |-> in.productImageDataUrl,
                   logoImageDataUrl |-> in.logoImageDataUrl]]
    /\ apiFailure' = [apiFailure EXCEPT ![c] = in.failure]
    /\ phase' = [phase EXCEPT ![c] = "research"]
    /\ researchCalls' = [researchCalls EXCEPT ![c] = @ + 1]
    /\ UNCHANGED <<rejection, researchResponse, creativePrompts, sent, task,
                   apiResult, progress, completions, queue, draining>>

\* App.handleStartOver: a click.
HandleStartOver ==
    /\ queue = <<>>
    /\ view = "results"
    /\ generatedAds' = <<>>
    /\ view' = "form"
    /\ UNCHANGED <<nCamp, args, apiFailure, phase, rejection,
                   researchResponse, researchCalls, creativePrompts, sent, task, apiResult, progress,
                   completions, queue, draining>>

\* The research call of call c settles with `api` (a response or an
\* error): researchAndGenerateAds, suspended at the await of line 139, is
\* queued to continue.
ResearchCompletes(c, api) ==
    /\ phase[c] = "research"
    /\ researchResponse[c] = Null
    /\ researchResponse' = [researchResponse EXCEPT ![c] = api]
    /\ Delivered(Job("research", c, 0))
    /\ UNCHANGED <<view, generatedAds, nCamp, args, apiFailure, phase,
                   rejection, researchCalls, creativePrompts, sent, task,
                   apiResult, progress, completions>>

\* The throw of an Error out of researchAndGenerateAds: its promise
\* rejects and the .catch handler of handleGenerate is queued.
Reject(c, message) ==
    /\ phase' = [phase EXCEPT ![c] = "rejected"]
    /\ rejection' = [rejection EXCEPT ![c] = message]
    /\ Dequeued(<<Job("catch", c, 0)>>)

\* researchAndGenerateAds from the await of the research call to its next
\* suspension: the parse, the conversion of the two images and the start
\* of all generation tasks up to the await of Promise.all, or the throw.
ResearchContinues(c) ==
    /\ IsNext(Job("research", c, 0))
    /\ \E research \in {ResearchPhase(researchResponse[c])},
          productImagePart \in {dataUrlToPart(args[c].productImageDataUrl)},
          logoImagePart \in
            {IF Truthy(args[c].logoImageDataUrl)
             THEN dataUrlToPart(args[c].logoImageDataUrl) ELSE Null} :
       IF ~research.ok
       THEN /\ Reject(c, research.message)
            /\ UNCHANGED <<creativePrompts, sent, task, apiResult>>
       ELSE IF productImagePart = Null
       THEN /\ Reject(c, InvalidImageMessage)
            /\ creativePrompts' = [creativePrompts EXCEPT ![c] = research.value]
            /\ UNCHANGED <<sent, task, apiResult>>
       ELSE LET prompts == research.value
                tasks == [k \in 1..Len(prompts) |-> "pending"]
            IN
            /\ creativePrompts' = [creativePrompts EXCEPT ![c] = prompts]
            /\ sent' = [sent EXCEPT ![c] =
                  StartedRequests(productImagePart, logoImagePart, prompts)]
            /\ task' = [task EXCEPT ![c] = tasks]
            /\ apiResult' = [apiResult EXCEPT ![c] =
                  [k \in 1..Len(prompts) |-> Null]]
            /\ phase' = [phase EXCEPT ![c] = "generating"]
            /\ Dequeued(IF PromiseAll(tasks) = "pending" THEN <<>>
                        ELSE <<Job("all", c, 0)>>)
            /\ UNCHANGED rejection
    /\ UNCHANGED <<view, generatedAds, nCamp, args, apiFailure,
                   researchResponse, researchCalls, progress, completions>>

\* The callback log of one call with one more invocation.
Logged(log, index, result) ==
    IF index \in DOMAIN log
    THEN [log EXCEPT ![index] = Append(@, result)]
    ELSE log @@ (index :> <<result>>)

\* The generation call of task k (index k - 1) of call c settles, with a
\* response or an error: generateSingleAd, suspended at the await of line
\* 92, is queued to continue.
GenerationCompletes(c, k, succeed) ==
    /\ k \in DOMAIN task[c]
    /\ apiResult[c][k] = Null
    /\ LET request == sent[c][k][Len(sent[c][k])] IN
       apiResult' = [apiResult EXCEPT ![c][k] =
                        GenerationApi(request, succeed, apiFailure[c])]
    /\ completions' = completions + 1
    /\ Delivered(Job("generate", c, k))
    /\ UNCHANGED <<view, generatedAds, nCamp, args, apiFailure, phase,
                   rejection, researchResponse, researchCalls,
                   creativePrompts, sent, task, progress>>

\* generateSingleAd after its await: processGeminiResponse or the catch
\* block; the promise of generateSingleAd settles and the map callback
\* awaiting it is queued to continue.
GenerationContinues(c, k) ==
    /\ IsNext(Job("generate", c, k))
    /\ Dequeued(<<Job("task", c, k)>>)
    /\ UNCHANGED <<view, generatedAds, nCamp, args, apiFailure, phase,
                   rejection, researchResponse, researchCalls,
                   creativePrompts, sent, task, apiResult, progress,
                   completions>>

\* The map callback of task k after the await of generateSingleAd: the
\* report through onProgressUpdate; the callback's promise settles, and
\* when that settles Promise.all, researchAndGenerateAds is queued to
\* continue.
TaskContinues(c, k) ==
    /\ IsNext(Job("task", c, k))
    /\ LET outcome == generateSingleAd(apiResult[c][k])
           report == TaskReport(k - 1, outcome)
           tasks == [task[c] EXCEPT ![k] = TaskSettles(outcome)]
       IN
       /\ task' = [task EXCEPT ![c] = tasks]
       /\ progress' = [progress EXCEPT ![c] = Logged(@, report.index, report.result)]
       /\ generatedAds' = onProgressUpdate(generatedAds, report.index, report.result)
       /\ Dequeued(IF PromiseAll(task[c]) = "pending" /\ PromiseAll(tasks) # "pending"
                   THEN <<Job("all", c, k)>> ELSE <<>>)
    /\ UNCHANGED <<view, nCamp, args, apiFailure, phase, rejection,
                   researchResponse, researchCalls, creativePrompts, sent,
                   apiResult, completions>>

\* researchAndGenerateAds after the await of Promise.all: it returns, or
\* it throws the Error of the task that rejected.
PromiseAllContinues(c) ==
    /\ queue # <<>>
    /\ Head(queue).kind = "all"
    /\ Head(queue).c = c
    /\ IF PromiseAll(task[c]) = "rejected"
       THEN Reject(c, generateSingleAd(apiResult[c][Head(queue).k]).message)
       ELSE /\ phase' = [phase EXCEPT ![c] = "resolved"]
            /\ Dequeued(<<>>)
            /\ UNCHANGED rejection
    /\ UNCHANGED <<view, generatedAds, nCamp, args, apiFailure,
                   researchResponse, researchCalls, creativePrompts, sent,
                   task, apiResult, progress, completions>>

\* The .catch handler of handleGenerate.
CatchHandler(c) ==
    /\ IsNext(Job("catch", c, 0))
    /\ generatedAds' = OnCampaignFailure(rejection[c])
    /\ Dequeued(<<>>)
    /\ UNCHANGED <<view, nCamp, args, apiFailure, phase, rejection,
                   researchResponse, researchCalls, creativePrompts, sent,
                   task, apiResult, progress, completions>>

\* ------------------------------------------------------- specifications

\* One campaign run to its end: a single click on Generate, every
\* completion order of the research call and the generation calls and
\* every outcome of each, one call settling per turn of the event loop; of
\* the first MaxCompletions calls up to MaxPerTurn settle in the same turn.
Next ==
    \/ \E in \in Scenarios : HandleGenerate(1, in)
    \/ \E api \in CoreResearchApiResults : ResearchCompletes(1, api)
    \/ ResearchContinues(1)
    \/ /\ \/ queue = <<>>
          \/ Len(queue) < MaxPerTurn /\ completions < MaxCompletions
       /\ \E k \in 1..Len(task[1]), succeed \in BOOLEAN :
             GenerationCompletes(1, k, succeed)
    \/ \E k \in 1..Len(task[1]) : GenerationContinues(1, k)
    \/ \E k \in 1..Len(task[1]) : TaskContinues(1, k)
    \/ PromiseAllContinues(1)
    \/ CatchHandler(1)

Spec == Init /\ [][Next]_vars

\* One campaign over every input and research reply, followed up to
\* MaxCompletions completed generation calls.
NextInputs ==
    \/ \E in \in Inputs : HandleGenerate(1, in)
    \/ \E api \in ResearchApiResults : ResearchCompletes(1, api)
    \/ ResearchContinues(1)
    \/ /\ completions < MaxCompletions
       /\ \E k \in 1..Len(task[1]), succeed \in BOOLEAN :
             GenerationCompletes(1, k, succeed)
    \/ \E k \in 1..Len(task[1]) : GenerationContinues(1, k)
    \/ \E k \in 1..Len(task[1]) : TaskContinues(1, k)
    \/ CatchHandler(1)

SpecInputs == Init /\ [][NextInputs]_vars

\* The application: Generate and Start Over interleaved with the
\* completions of the calls in flight, of any campaign, up to
\* MaxAppCompletions completed generation calls.
NextApp ==
    \/ \E c \in Campaigns, in \in AppScenarios : HandleGenerate(c, in)
    \/ HandleStartOver
    \/ \E c \in Campaigns, api \in CoreResearchApiResults :
          ResearchCompletes(c, api)
    \/ \E c \in Campaigns : ResearchContinues(c)
    \/ /\ completions < MaxAppCompletions
       /\ \E c \in Campaigns : \E k \in 1..Len(task[c]), succeed \in BOOLEAN :
             GenerationCompletes(c, k, succeed)
    \/ \E c \in Campaigns : \E k \in 1..Len(task[c]) : GenerationContinues(c, k)
    \/ \E c \in Campaigns : \E k \in 1..Len(task[c]) : TaskContinues(c, k)
    \/ \E c \in Campaigns : CatchHandler(c)

SpecApp == Init /\ [][NextApp]_vars

\* The research phase alone, over the constructed replies: one click on
\* Generate, the completion of the research call and what follows it.
NextParse ==
    \/ \E in \in Scenarios : HandleGenerate(1, in)
    \/ \E api \in ConstructedReplies : ResearchCompletes(1, api)
    \/ ResearchContinues(1)
    \/ CatchHandler(1)

SpecParse == Init /\ [][NextParse]_vars

\* One campaign over every kind of generation response, followed up to
\* MaxCompletions completed generation calls.
NextExtract ==
    \/ \E in \in ExtractScenarios : HandleGenerate(1, in)
    \/ \E api \in CoreResearchApiResults : ResearchCompletes(1, api)
    \/ ResearchContinues(1)
    \/ /\ completions < MaxCompletions
       /\ \E k \in 1..Len(task[1]), succeed \in BOOLEAN :
             GenerationCompletes(1, k, succeed)
    \/ \E k \in 1..Len(task[1]) : GenerationContinues(1, k)
    \/ \E k \in 1..Len(task[1]) : TaskContinues(1, k)
    \/ CatchHandler(1)

SpecExtract == Init /\ [][NextExtract]_vars

\* The items the image model may decline (answer without an image) in the
\* fair specification.
Declinable == 1..MaxDeclined

\* The outcomes of the generation call of task k in the fair
\* specification: the model answers with an image, or declines a
\* declinable item.
Outcomes(k) == IF k - 1 \in Declinable THEN BOOLEAN ELSE {TRUE}

\* Inputs of the fair specification: a valid and an invalid product, no
\* logo, a model that declines when it fails.
FairScenarios ==
    {Input(p, NullString, "noImage") : p \in {PngProduct, SvgProduct}}

\* A remote call in flight returns or fails: one call per turn of the
\* event loop.
CallReturns ==
    \/ \E api \in CoreResearchApiResults : ResearchCompletes(1, api)
    \/ /\ queue = <<>>
       /\ \E k \in 1..Len(task[1]) : \E succeed \in Outcomes(k) :
             GenerationCompletes(1, k, succeed)

\* The event loop runs the microtask at the head of the queue.
RunMicrotask ==
    \/ ResearchContinues(1)
    \/ \E k \in 1..Len(task[1]) : GenerationContinues(1, k)
    \/ \E k \in 1..Len(task[1]) : TaskContinues(1, k)
    \/ PromiseAllContinues(1)
    \/ CatchHandler(1)

NextFair ==
    \/ \E in \in FairScenarios : HandleGenerate(1, in)
    \/ CallReturns
    \/ RunMicrotask

\* One campaign run to its end under the assumptions that every remote
\* call eventually returns or fails and that the event loop runs the
\* microtasks it has queued.
FairSpec ==
    /\ Init /\ [][NextFair]_vars
    /\ WF_vars(CallReturns)
    /\ WF_vars(RunMicrotask)

\* --------------------------------------------------------------- claims

\* The turn of the event loop is over: no continuation is waiting to run.
Quiet == queue = <<>>

\* The indices of a campaign's items.
Indices == 0..(SlotCount - 1)

\* A generation call failed: it threw, or its response carries no image in
\* its first candidate.
CallFailed(api) ==
    \/ ~api.ok
    \/ FirstCandidateImagePart(api.value) = Null

\* The generation call of task k of call c has returned or failed.
Completed(c, k) == apiResult[c][k] # Null

\* F: the indices of call c whose generation call has failed.
FailedIndices(c) ==
    {k - 1 : k \in {j \in DOMAIN apiResult[c] :
                       Completed(c, j) /\ CallFailed(apiResult[c][j])}}

\* The results onProgressUpdate received for index i from call c.
Reports(c, i) == IF i \in DOMAIN progress[c] THEN progress[c][i] ELSE <<>>

AllTasksSettled(c) ==
    /\ task[c] # <<>>
    /\ \A k \in DOMAIN task[c] : task[c][k] # "pending"

\* C1: in campaign mode, once research has succeeded with at least 10
\* prompts and the product image is valid, whichever calls fail and in
\* whatever order the calls complete, the progress callback is invoked only
\* for the indices 0..9, at most once per index, with 'error' for an index
\* whose call failed and 'done' for the others; every call that has
\* returned is reported by the end of the turn, and when all tasks are
\* through the callback has been invoked exactly once for every index
\* 0..9: 10 times in all.
C1_EachIndexReportedOnce ==
    /\ \A i \in DOMAIN progress[1] :
          /\ i \in Indices
          /\ Completed(1, i + 1)
          /\ Len(progress[1][i]) = 1
          /\ progress[1][i][1].status =
                IF i \in FailedIndices(1) THEN "error" ELSE "done"
    /\ \A k \in DOMAIN task[1] :
          (Quiet /\ Completed(1, k)) => Len(Reports(1, k - 1)) = 1
    /\ AllTasksSettled(1) => DOMAIN progress[1] = Indices

\* The campaign of the spec's example: all ten calls are through and item 3
\* alone failed.
C1_Witness ==
    /\ AllTasksSettled(1)
    /\ phase[1] = "resolved"
    /\ FailedIndices(1) = {3}

\* The research phase of call c has succeeded: the research call returned
\* a reply from which parsePromptsFromText gets its 10 prompts.
ResearchSucceeded(c) ==
    /\ researchResponse[c] # Null
    /\ ResearchPhase(researchResponse[c]).ok

\* C2: the promise of researchAndGenerateAds resolves only after each of
\* the 10 tasks has invoked the progress callback; once research has
\* succeeded it never rejects, however many of the 10 items fail, and it
\* is resolved in the turn in which the last task is through.
C2_ResolvesOnlyAfterAllReported ==
    /\ phase[1] = "resolved" =>
          /\ Len(task[1]) = RequiredPrompts
          /\ \A i \in Indices : Len(Reports(1, i)) >= 1
    /\ ResearchSucceeded(1) => phase[1] # "rejected"
    /\ (Quiet /\ AllTasksSettled(1)) => phase[1] = "resolved"

\* The research call returned a reply with fewer than 10 non-empty segments.
TooFewConcepts(c) ==
    /\ researchResponse[c] # Null
    /\ researchResponse[c].ok
    /\ Len(Segments(researchResponse[c].value)) < RequiredPrompts

\* C3: when the research reply holds fewer than 10 non-empty segments, the
\* campaign fails with the InsufficientConcepts error (the message of
\* parsePromptsFromText, which the caller can tell from the research
\* failure's) and no generation call is issued.
C3_TooFewConceptsIsItsOwnError ==
    (Quiet /\ TooFewConcepts(1)) =>
        /\ phase[1] = "rejected"
        /\ rejection[1] = ConceptsMessage
        /\ rejection[1] # ResearchMessage
        /\ sent[1] = <<>>

\* The research call itself failed.
ResearchCallFailed(c) ==
    /\ researchResponse[c] # Null
    /\ ~researchResponse[c].ok

\* C4: when the research call fails, researchAndGenerateAds rejects after
\* exactly one research call, with no generation call issued and no
\* invocation of the progress callback.
C4_ResearchFailureRejectsAtOnce ==
    ResearchCallFailed(1) =>
        /\ Quiet => (phase[1] = "rejected" /\ rejection[1] = ResearchMessage)
        /\ phase[1] \in {"research", "rejected"}
        /\ researchCalls[1] = 1
        /\ sent[1] = <<>>
        /\ task[1] = <<>>
        /\ DOMAIN progress[1] = {}
        /\ completions = 0

\* The research call threw and the campaign is rejected.
C4_Witness ==
    /\ ResearchCallFailed(1)
    /\ phase[1] = "rejected"
    /\ Quiet

\* Call c was made with a product image that is not a data URL of an image.
MalformedProduct(c) ==
    /\ phase[c] # "idle"
    /\ ~MatchesDataUrl(args[c].productImageDataUrl)

\* C5: for a malformed product image the campaign fails with
\* InvalidImageFormat before any remote call: no research call is issued.
C5_MalformedProductFailsBeforeAnyCall ==
    MalformedProduct(1) =>
        /\ researchCalls[1] = 0
        /\ phase[1] = "rejected"
        /\ rejection[1] = InvalidImageMessage

\* Call c was made with a logo that is not null and not a data URL of an
\* image.
MalformedLogo(c) ==
    /\ phase[c] # "idle"
    /\ args[c].logoImageDataUrl # NullString
    /\ ~MatchesDataUrl(args[c].logoImageDataUrl)

\* C6: for a malformed non-null logo the campaign fails with
\* InvalidImageFormat: it never goes on to generate as if no logo had been
\* provided, so no generation request is sent and the promise does not
\* resolve.
C6_MalformedLogoFails ==
    MalformedLogo(1) =>
        /\ sent[1] = <<>>
        /\ phase[1] \notin {"generating", "resolved"}

\* C7: each per-item generation goes through the Retrying Invoker: an item
\* whose call failed with an internal error is tried again, up to 3
\* attempts, so an item is through after an internal-error failure only
\* when its third request has been sent.
C7_InternalErrorsAreRetried ==
    \A k \in DOMAIN task[1] :
        (/\ Completed(1, k)
         /\ apiResult[1][k] = Throw(InternalErrorMessage)
         /\ task[1][k] # "pending")
        => Len(sent[1][k]) = 3

\* C8: when a generation call fails with an error that is not an internal
\* error, the failure is propagated after exactly one attempt: one request
\* was sent for the item and no other follows, and by the end of the turn
\* in which the call fails the task is through and its one report is the
\* error carrying the call's message.
C8_OtherErrorsFailAfterOneAttempt ==
    \A k \in DOMAIN task[1] :
        apiResult[1][k] = Throw(PermissionErrorMessage) =>
            /\ Len(sent[1][k]) = 1
            /\ Reports(1, k - 1) \in
                  { <<>>,
                    <<[status |-> "error",
                       error |-> <<"AI model failed: ">> \o PermissionErrorMessage]>> }
            /\ Quiet => (task[1][k] = "fulfilled" /\ Reports(1, k - 1) # <<>>)

\* A generation call failed with a permission error.
C8_Witness ==
    /\ Quiet
    /\ \E k \in DOMAIN task[1] : apiResult[1][k] = Throw(PermissionErrorMessage)

\* C9: in campaign mode an item whose response holds text but no image is
\* reported, by the end of the turn in which the response arrives, with
\* status 'error' under its own index, and no second request (no fallback
\* prompt) is issued for it.
C9_NoImageIsReportedWithoutFallback ==
    \A k \in DOMAIN task[1] :
        apiResult[1][k] = Return(TextOnlyResponse) =>
            /\ Len(sent[1][k]) = 1
            /\ Reports(1, k - 1) \in
                  { <<>>,
                    <<[status |-> "error",
                       error |-> <<"AI model failed: ">>
                                   \o NoImageMessage(TextOnlyResponse.text)]>> }
            /\ Quiet => (task[1][k] = "fulfilled" /\ Reports(1, k - 1) # <<>>)

\* A generation call was answered with text only.
C9_Witness ==
    /\ Quiet
    /\ \E k \in DOMAIN task[1] : apiResult[1][k] = Return(TextOnlyResponse)

Terminal(slot) == slot.status \in {"done", "error"}

\* C10: whatever the sequence of Generate, Start Over and completions of
\* calls in flight, an item slot that is 'done' or 'error' is never written
\* again by a progress callback or by the failure handler: every step other
\* than a click on Generate or Start Over leaves each terminal slot as it is.
C10_TerminalSlotsAreNeverRewritten ==
    [][(nCamp' = nCamp /\ view' = view) =>
          \A k \in DOMAIN generatedAds :
              Terminal(generatedAds[k]) =>
                  /\ k \in DOMAIN generatedAds'
                  /\ generatedAds'[k] = generatedAds[k]]_vars

\* C11: when researchAndGenerateAds rejects (the research call failed, the
\* reply held too few concepts, or the product image is invalid) in a single
\* campaign, the caller holds, once its .catch handler has run, 10 item
\* slots, every one of them 'error' with the message of the rejection: none
\* is 'pending' or 'done'.
C11_RejectionMarksEverySlot ==
    (Quiet /\ phase[1] = "rejected") =>
        /\ Len(generatedAds) = SlotCount
        /\ \A k \in DOMAIN generatedAds :
              /\ generatedAds[k].status = "error"
              /\ generatedAds[k].error = rejection[1]
        /\ rejection[1] \in {ResearchMessage, InvalidImageMessage}

\* The campaign was rejected for its product image, after a research call
\* that returned enough concepts.
C11_Witness ==
    /\ Quiet
    /\ phase[1] = "rejected"
    /\ rejection[1] = InvalidImageMessage
    /\ Len(generatedAds) = SlotCount
    /\ \A k \in DOMAIN generatedAds : generatedAds[k].status = "error"

\* C13: no generation call is issued before the research call has returned
\* and been parsed into exactly 10 prompts, and when the generation phase
\* starts exactly 10 tasks are launched, one request each, also when the
\* reply held more than 10 segments.
C13_ExactlyTenTasksAfterResearch ==
    /\ phase[1] \in {"idle", "research"} => (sent[1] = <<>> /\ task[1] = <<>>)
    /\ sent[1] # <<>> =>
          /\ researchResponse[1] # Null
          /\ researchResponse[1].ok
          /\ Len(creativePrompts[1]) = RequiredPrompts
          /\ Len(sent[1]) = RequiredPrompts
          /\ Len(task[1]) = RequiredPrompts
          /\ \A k \in DOMAIN sent[1] : Len(sent[1][k]) = 1

\* The generation phase started from a reply of 12 concepts.
C13_Witness ==
    /\ researchResponse[1] = Return(MarkedConcepts(1, 12))
    /\ phase[1] = "generating"
    /\ Len(task[1]) = RequiredPrompts

\* C14: all 10 generation calls are issued before any of them has to
\* complete, and no item waits on another: from the moment the tasks exist
\* every one of the 10 tasks has its request out, whichever calls have
\* returned; an item is reported by the end of the turn in which its own
\* call returns, whatever the state of the other calls; and while any call
\* has not returned the promise of researchAndGenerateAds stays unresolved.
C14_AllCallsIssuedUpFront ==
    task[1] # <<>> =>
        /\ Len(task[1]) = SlotCount
        /\ \A k \in DOMAIN task[1] : Len(sent[1][k]) = 1
        /\ \A k \in DOMAIN task[1] :
              /\ Len(Reports(1, k - 1)) = (IF task[1][k] = "pending" THEN 0 ELSE 1)
              /\ task[1][k] # "pending" => Completed(1, k)
              /\ (Quiet /\ Completed(1, k)) => task[1][k] # "pending"
        /\ (\E k \in DOMAIN task[1] : ~Completed(1, k))
              => phase[1] = "generating"

\* The call of item 4 has not returned; the other nine items have been
\* reported and the promise is unresolved.
C14_Witness ==
    /\ task[1] # <<>>
    /\ task[1][5] = "pending"
    /\ ~Completed(1, 5)
    /\ Quiet
    /\ \A k \in DOMAIN task[1] : k # 5 => Len(Reports(1, k - 1)) = 1
    /\ Reports(1, 4) = <<>>
    /\ phase[1] = "generating"
    /\ generatedAds[5] = Pending
    /\ \A k \in DOMAIN generatedAds : k # 5 => Terminal(generatedAds[k])

\* The slot an item ends in, as its own generation call decides it.
ItemOutcome(c, k) == TaskReport(k - 1, generateSingleAd(apiResult[c][k])).result

\* C15: a delivery of the progress callback for index i changes slot i of
\* the item array and no other slot, and keeps the array's length, in every
\* interleaving of the 10 tasks' deliveries; after the last delivery the
\* array holds, at each index, the outcome of that item's own call, so it
\* does not depend on the order of the deliveries.
C15_DeliveryWritesOnlyItsSlot ==
    [][\A k \in DOMAIN task[1] :
          (task[1][k] = "pending" /\ task'[1][k] # "pending") =>
              /\ Len(generatedAds') = Len(generatedAds)
              /\ \A j \in DOMAIN generatedAds :
                    j # k => generatedAds'[j] = generatedAds[j]
              /\ generatedAds'[k] = ItemOutcome(1, k)'
              /\ generatedAds[k] = Pending
              /\ AllTasksSettled(1)' =>
                    generatedAds' = [j \in 1..SlotCount |-> ItemOutcome(1, j)']
      ]_vars

\* All ten deliveries are through and the final array is mixed: items 0
\* and 9 done, items 1 and 2 in error.
C15_Witness ==
    /\ AllTasksSettled(1)
    /\ Len(generatedAds) = SlotCount
    /\ generatedAds[1].status = "done"
    /\ generatedAds[2].status = "error"
    /\ generatedAds[3].status = "error"
    /\ generatedAds[10].status = "done"
    /\ \A j \in DOMAIN generatedAds : generatedAds[j] = ItemOutcome(1, j)

\* The request was built from this prompt: its text part is the prompt
\* between the fixed opening and the logo instruction.
BuiltFrom(request, prompt) ==
    /\ Len(request[1].text) = Len(prompt) + 2
    /\ SubSeq(request[1].text, 2, Len(prompt) + 1) = prompt

\* C16: the result reported with index i is the outcome of the generation
\* call built from the i-th prompt of the parser's output, under every
\* completion order. The step that starts the tasks leaves the parser's
\* output for the research reply as the prompts and builds the request of
\* task i from prompt i and from no other prompt; no later step changes
\* the prompts or the requests; and always, the call's outcome is the
\* service's answer to that request, the one report with index i carries
\* that outcome, and no index is reported by two tasks.
C16_IndexAndPromptStayPaired ==
    /\ [][/\ (task[1] = <<>> /\ task'[1] # <<>>) =>
               /\ creativePrompts'[1] =
                     parsePromptsFromText(researchResponse[1].value).value
               /\ \A k \in DOMAIN task'[1] :
                     \A j \in DOMAIN creativePrompts'[1] :
                        (j = k) <=>
                           BuiltFrom(sent'[1][k][1], creativePrompts'[1][j])
          /\ task[1] # <<>> =>
               /\ creativePrompts'[1] = creativePrompts[1]
               /\ sent'[1] = sent[1]
         ]_vars
    /\ [](/\ \A i \in DOMAIN progress[1] :
               LET request == sent[1][i + 1][1]
                   api == apiResult[1][i + 1]
                   report == progress[1][i][1]
               IN
               /\ Len(progress[1][i]) = 1
               /\ api \in {GenerationApi(request, s, apiFailure[1]) :
                               s \in BOOLEAN}
               /\ IF api.ok /\ api.value = ImageResponse(request)
                  THEN /\ report.status = "done"
                       /\ report.url =
                             DataImage \o <<"p", "n", "g">> \o Base64Mark
                                \o <<"AD ">> \o request[1].text
                  ELSE /\ report.status = "error"
                       /\ report.error =
                             <<"AI model failed: ">> \o
                                (IF api.ok THEN NoImageMessage(api.value.text)
                                 ELSE api.message)
          /\ Cardinality(DOMAIN progress[1]) =
                Cardinality({k \in DOMAIN task[1] : task[1][k] # "pending"}))

\* All items are through; items 0 and 9 are done and each carries the
\* image made from its own prompt, and the two prompts differ.
C16_Witness ==
    /\ AllTasksSettled(1)
    /\ Reports(1, 0) # <<>> /\ Reports(1, 0)[1].status = "done"
    /\ BuiltFrom(<<[text |-> SubSeq(Reports(1, 0)[1].url, 24,
                                     Len(Reports(1, 0)[1].url))]>>,
                 creativePrompts[1][1])
    /\ Reports(1, 9) # <<>> /\ Reports(1, 9)[1].status = "done"
    /\ BuiltFrom(<<[text |-> SubSeq(Reports(1, 9)[1].url, 24,
                                     Len(Reports(1, 9)[1].url))]>>,
                 creativePrompts[1][10])
    /\ creativePrompts[1][1] # creativePrompts[1][10]

\* The concepts of a constructed reply, in order: the bodies of the
\* markers j..n that are not blank.
RECURSIVE PlannedConcepts(_, _)
PlannedConcepts(plan, j) ==
    IF j > plan.n THEN <<>>
    ELSE (IF j \in plan.blank THEN <<>> ELSE <<ConceptBody(j, plan.layout)>>)
           \o PlannedConcepts(plan, j + 1)

\* The non-empty trimmed segments the reply splits into: what stands
\* before the first marker, if anything does, then the concepts.
PlannedSegments(plan) ==
    (IF plan.opening.segment = <<>> THEN <<>> ELSE <<plan.opening.segment>>)
      \o PlannedConcepts(plan, 1)

\* The research call of campaign 1 has returned the reply of this plan and
\* the turn is over.
Replied(plan) == Quiet /\ researchResponse[1] = Return(ReplyText(plan))

\* C17: for every text that yields k >= 10 non-empty trimmed segments
\* when split on the marker, parsePromptsFromText returns exactly the
\* first 10 of them in their order, and for k < 10 it throws: the campaign
\* then has those 10 prompts, or it has none and its research phase has
\* failed before any generation task.
C17_FirstTenSegmentsOrThrow ==
    \A plan \in ReplyPlans :
        Replied(plan) =>
            LET segments == PlannedSegments(plan)
                parsed == parsePromptsFromText(ReplyText(plan))
            IN
            IF Len(segments) >= RequiredPrompts
            THEN /\ parsed = Return(SubSeq(segments, 1, RequiredPrompts))
                 /\ creativePrompts[1] = SubSeq(segments, 1, RequiredPrompts)
                 /\ rejection[1] # ResearchMessage
            ELSE /\ parsed = Throw(ConceptsMessage)
                 /\ creativePrompts[1] = <<>>
                 /\ phase[1] = "rejected"
                 /\ rejection[1] = ResearchMessage
                 /\ task[1] = <<>>

\* A reply of 12 padded concepts, the third of them blank: 11 segments,
\* of which the campaign generates the first 10 (concepts 1, 2, 4..11).
C17_Witness ==
    /\ Replied([opening |-> [raw |-> <<>>, segment |-> <<>>], n |-> 12,
                blank |-> {3}, layout |-> "padded"])
    /\ phase[1] = "generating"
    /\ Len(creativePrompts[1]) = RequiredPrompts
    /\ creativePrompts[1][3] = Concept(4)
    /\ creativePrompts[1][10] = Concept(11)

\* The parts carrying inline image data, over all candidates of a response.
InlineParts(response) ==
    UNION {{response.candidates[c].parts[q] :
              q \in {r \in DOMAIN response.candidates[c].parts :
                        HasInlineData(response.candidates[c].parts[r])}} :
           c \in DOMAIN response.candidates}

\* C18: processGeminiResponse returns a data URL built from the MIME type
\* and the payload of an inline-image part whenever a part of the response,
\* in any candidate, carries inline image data, and otherwise fails with
\* the no-image error carrying the response text, or a placeholder when
\* that text is empty: every item whose call returned a response is
\* reported accordingly.
C18_ImageFoundInAnyCandidate ==
    \A k \in DOMAIN task[1] :
        (Completed(1, k) /\ apiResult[1][k].ok /\ task[1][k] # "pending") =>
            LET response == apiResult[1][k].value
                report == Reports(1, k - 1)[1]
            IN
            IF InlineParts(response) # {}
            THEN /\ report.status = "done"
                 /\ \E part \in InlineParts(response) :
                       report.url = <<"d", "a", "t", "a", ":">>
                                      \o part.inlineData.mimeType
                                      \o Base64Mark \o part.inlineData.data
            ELSE /\ report.status = "error"
                 /\ report.error =
                       <<"AI model failed: ",
                         "The AI model responded with text instead of an image: \"">>
                         \o (IF response.text = <<>>
                             THEN <<"No text response received.">>
                             ELSE response.text)
                         \o <<"\"">>

\* C19: every prompt parsePromptsFromText returns is text that followed
\* a `PROMPT <n>:` marker of the reply; text before the first marker is
\* never returned as a prompt and never counts toward the required 10, so
\* a campaign has prompts only if the reply has 10 marked concepts.
C19_OnlyMarkedTextIsAPrompt ==
    \A plan \in ReplyPlans :
        Replied(plan) =>
            LET concepts == PlannedConcepts(plan, 1) IN
            /\ \A j \in DOMAIN creativePrompts[1] :
                  \E i \in DOMAIN concepts : creativePrompts[1][j] = concepts[i]
            /\ creativePrompts[1] # <<>> => Len(concepts) >= RequiredPrompts

\* No slot of the item array is pending.
NoSlotPending ==
    /\ Len(generatedAds) = SlotCount
    /\ \A k \in DOMAIN generatedAds : Terminal(generatedAds[k])

\* C20: in a single campaign without Start Over, if every remote call
\* eventually returns or fails, then after the click on Generate every one
\* of the 10 slots eventually leaves 'pending' for 'done' or 'error', the
\* promise of researchAndGenerateAds eventually settles, and both stay so.
C20_EverySlotEventuallySettles ==
    (nCamp = 1) ~>
        [](NoSlotPending /\ phase[1] \in {"resolved", "rejected"})

\* The campaign has gone through research and all ten generation calls:
\* the promise is resolved and no slot is pending, item 3 in error.
C20_Witness ==
    /\ nCamp = 1
    /\ Quiet
    /\ completions = SlotCount
    /\ phase[1] = "resolved"
    /\ NoSlotPending
    /\ generatedAds[4].status = "error"
    /\ generatedAds[1].status = "done"

====
